---- MODULE Spec2Model ----
(***************************************************************************)
(* Model of utils/ethiotelecomReceipt.js: the receipt pipeline              *)
(* (getReceiptCanonical, getReceiptFromUrl), its text helpers, the raw pair *)
(* extractor and the shared headless-browser fetcher.                       *)
(*                                                                          *)
(* A JavaScript string is a sequence of atoms.  An atom is either one       *)
(* character (a letter, a digit, a blank, a colon, ...) or one lexical      *)
(* token of page text (a word, a number) that none of the modelled regular  *)
(* expressions can split.  The tables below give each atom's character      *)
(* classes.  JavaScript's null is the value Null; null and "" are the two   *)
(* falsy values a string-typed expression of the program can take.         *)
(***************************************************************************)
EXTENDS Integers, Sequences, FiniteSets, TLC

VARIABLES
    \* cleanText applied to a text and to its own result
    text, cleaned, recleaned, textPc,
    \* extractReceiptRawPairs scanning the rows of a document
    rows, rowIdx, raw,
    \* configuration and environment: the URL template of the process and the
    \* pages the operator's site may serve
    RECEIPT_URL_TEMPLATE, served,
    \* the module-level browser handle (0 is null), which browsers are
    \* running, and whether a call of closeBrowser is suspended at its await
    browserInstance, browserState, closer,
    \* per call: where it is, how it was entered, its argument url, the
    \* transaction code, the built receipt URL
    pc, entry, urlArg, txCode, receiptUrl,
    \* per call, inside fetchReceiptWithPuppeteer: the browser it got (0 when
    \* it has none or the one it got is gone), its page, and what the try
    \* block ended with
    browser, pageState, tryResult,
    \* per call: what it settled with
    outcome,
    \* history, per call: each run of assertAllowedHost, each URL handed to
    \* fetchReceiptWithPuppeteer, whether page.close() was invoked
    gateLog, fetchLog, closeInvoked

textVars == <<text, cleaned, recleaned, textPc>>
pairVars == <<rows, rowIdx, raw>>
envVars == <<RECEIPT_URL_TEMPLATE, served>>
browserVars == <<browserInstance, browserState, closer>>
callVars == <<pc, entry, urlArg, txCode, receiptUrl, outcome, gateLog, fetchLog>>
fetchVars == <<browser, pageState, tryResult, closeInvoked>>
pipeVars == <<envVars, browserVars, callVars, fetchVars>>
vars == <<textVars, pairVars, pipeVars>>

(***************************************************************************)
(* Bounds of the model.                                                     *)
(***************************************************************************)
MaxLen == 3
MaxRows == 3
MaxTxLen == 11
MaxSegs == 3
NumProcs == 2

(***************************************************************************)
(* Atoms and their character classes.                                       *)
(***************************************************************************)
SP == " "
NBSP == "<nbsp>"
TAB == "<tab>"
NEWLINE == "<lf>"
COLON == ":"
FWCOLON == "<fwcolon>"

Null == <<"<null>">>
EmptyStr == <<>>

\* JavaScript truthiness of a string-or-null value
Truthy(v) == v # Null /\ v # EmptyStr

\* the class \s of a JavaScript regular expression, and what trim() removes
IsWhitespace(a) == a \in {SP, NBSP, TAB, NEWLINE}

\* the class [:<fullwidth colon>]
IsColon(a) == a \in {COLON, FWCOLON}

(***************************************************************************)
(* cleanText and normalizeKey.                                              *)
(***************************************************************************)
\* .replace(/ /g, " ")
ReplaceNbsp(s) == [i \in 1..Len(s) |-> IF s[i] = NBSP THEN SP ELSE s[i]]

\* .replace(/\s+/g, " "): every maximal run of blanks becomes one space
RECURSIVE CollapseFrom(_, _)
CollapseFrom(s, inRun) ==
    IF s = <<>> THEN <<>>
    ELSE IF IsWhitespace(Head(s))
         THEN (IF inRun THEN <<>> ELSE <<SP>>) \o CollapseFrom(Tail(s), TRUE)
         ELSE <<Head(s)>> \o CollapseFrom(Tail(s), FALSE)

CollapseWhitespace(s) == CollapseFrom(s, FALSE)

\* .replace(/[:<fullwidth colon>]+$/, ""): the run of colons that ends the string
RECURSIVE StripTrailingColons(_)
StripTrailingColons(s) ==
    IF s # <<>> /\ IsColon(s[Len(s)])
    THEN StripTrailingColons(SubSeq(s, 1, Len(s) - 1))
    ELSE s

\* .trim()
RECURSIVE TrimStart(_)
TrimStart(s) ==
    IF s # <<>> /\ IsWhitespace(Head(s)) THEN TrimStart(Tail(s)) ELSE s

RECURSIVE TrimEnd(_)
TrimEnd(s) ==
    IF s # <<>> /\ IsWhitespace(s[Len(s)])
    THEN TrimEnd(SubSeq(s, 1, Len(s) - 1))
    ELSE s

Trim(s) == TrimEnd(TrimStart(s))

\* String(text || "")
StringOrEmpty(v) == IF Truthy(v) THEN v ELSE EmptyStr

cleanText(t) ==
    Trim(StripTrailingColons(CollapseWhitespace(ReplaceNbsp(StringOrEmpty(t)))))

\* the concatenation of a sequence of strings
RECURSIVE ConcatAll(_)
ConcatAll(ss) == IF ss = <<>> THEN <<>> ELSE Head(ss) \o ConcatAll(Tail(ss))

\* .toLowerCase(), atom by atom
ToLowerAtom(a) ==
    CASE a = "Download" -> "download"
      [] a = "PDF" -> "pdf"
      [] a = "The" -> "the"
      [] a = "Payer" -> "payer"
      [] a = "Name" -> "name"
      [] a = "Abebe" -> "abebe"
      [] a = "Kebede" -> "kebede"
      [] a = "Duplicate" -> "duplicate"
      [] a = "Value" -> "value"
      [] a = "Credited" -> "credited"
      [] a = "Settled" -> "settled"
      [] a = "SETTLED" -> "settled"
      [] a = "Amount" -> "amount"
      [] a = "Birr" -> "birr"
      [] a = "Invoice" -> "invoice"
      [] a = "No" -> "no"
      [] a = "NO" -> "no"
      [] a = "Data" -> "data"
      [] a = "Not" -> "not"
      [] a = "Found" -> "found"
      [] a = "Invalid" -> "invalid"
      [] a = "Does" -> "does"
      [] a = "Exist" -> "exist"
      [] OTHER -> a

ToLowerCase(s) == [i \in 1..Len(s) |-> ToLowerAtom(s[i])]

normalizeKey(s) == Trim(CollapseWhitespace(ToLowerCase(cleanText(s))))

\* t.includes(w) for a word w
Includes(t, w) == \E i \in 1..Len(t) : t[i] = w

isPdfJunkValue(v) ==
    LET t == normalizeKey(v)
    IN \/ t = <<"download", SP, "the", SP, "pdf">>
       \/ t = <<"download", SP, "pdf">>
       \/ (Includes(t, "download") /\ Includes(t, "pdf"))

isJunkPair(key, value) ==
    \/ ~Truthy(key) \/ ~Truthy(value)
    \/ isPdfJunkValue(value)
    \/ normalizeKey(key) = normalizeKey(value)

(***************************************************************************)
(* The raw pair extractor.  A table cell is [text, link]: its own text and  *)
(* the text of the a/button/svg/script/style elements inside it.  A row is  *)
(* the sequence of its th/td cells.  The object raw = {} is the sequence of *)
(* its own properties [k, v] in insertion order; reading raw[k] also finds  *)
(* what every object inherits from Object.prototype.                        *)
(***************************************************************************)
\* a cell that holds text and no link
Cell(t) == [text |-> t, link |-> EmptyStr]

\* clone.find("a,button,svg,script,style").remove(); cleanText(clone.text())
cellTextNoLinks(cell) ==
    LET t == cleanText(cell.text)
    IN IF isPdfJunkValue(t) THEN EmptyStr ELSE t

\* names every object created by {} inherits from Object.prototype
ObjectPrototypeKeys ==
    {<<"constructor">>, <<"toString">>, <<"valueOf">>, <<"hasOwnProperty">>,
     <<"isPrototypeOf">>, <<"propertyIsEnumerable">>, <<"toLocaleString">>,
     <<"__proto__">>}

OwnKeys(obj) == {obj[i].k : i \in 1..Len(obj)}

OwnValue(obj, k) == obj[CHOOSE i \in 1..Len(obj) : obj[i].k = k].v

\* the truthiness of obj[k]: an own value is a non-empty string, an inherited
\* one is a function or Object.prototype itself
HasTruthyProperty(obj, k) == k \in OwnKeys(obj) \/ k \in ObjectPrototypeKeys

\* if (!k || !v) continue; if (!raw[k]) raw[k] = v;
StorePair(obj, k, v) ==
    IF ~Truthy(k) \/ ~Truthy(v) THEN obj
    ELSE IF HasTruthyProperty(obj, k) THEN obj
    ELSE Append(obj, [k |-> k, v |-> v])

\* arr: the cleaned text of each cell of the row
CellTexts(row) == [i \in 1..Len(row) |-> cellTextNoLinks(row[i])]

\* for (let i = 0; i < arr.length - 1; i += 2): the pairs (arr[i], arr[i+1])
PairsOfRow(row) ==
    LET arr == CellTexts(row)
    IN [j \in 1..(Len(arr) \div 2) |-> [k |-> arr[2 * j - 1], v |-> arr[2 * j]]]

RECURSIVE StorePairs(_, _)
StorePairs(obj, pairs) ==
    IF pairs = <<>> THEN obj
    ELSE StorePairs(StorePair(obj, Head(pairs).k, Head(pairs).v), Tail(pairs))

\* the callback of $("table tr").each
ScanRowInto(obj, row) ==
    IF Len(row) < 2 THEN obj ELSE StorePairs(obj, PairsOfRow(row))

RECURSIVE ScanRows(_, _)
ScanRows(obj, rs) ==
    IF rs = <<>> THEN obj ELSE ScanRows(ScanRowInto(obj, Head(rs)), Tail(rs))

extractReceiptRawPairs(rs) == ScanRows(<<>>, rs)

(***************************************************************************)
(* URLs.  The text of a URL is the record of what the WHATWG parser finds   *)
(* in it: whether it parses at all, its scheme and host as written, the     *)
(* segments of its path between slashes (empty segments included) and its   *)
(* query parameters in order.  new URL() lower-cases the scheme and host.   *)
(***************************************************************************)
AllowedHost == "transactioninfo.ethiotelecom.et"
ALLOWED_HOSTS == {AllowedHost}

Url(s, h, p, q) ==
    [wellFormed |-> TRUE, scheme |-> s, host |-> h, path |-> p, query |-> q]

Param(n, v) == [name |-> n, value |-> v]

MalformedUrl ==
    [wellFormed |-> FALSE, scheme |-> "", host |-> "", path |-> <<>>, query |-> <<>>]

NoUrl ==
    [wellFormed |-> FALSE, scheme |-> "<none>", host |-> "", path |-> <<>>, query |-> <<>>]

LowerScheme(s) ==
    CASE s = "HTTPS" -> "https"
      [] s = "Http" -> "http"
      [] OTHER -> s

LowerHost(h) ==
    CASE h = "TRANSACTIONINFO.ETHIOTELECOM.ET" -> AllowedHost
      [] OTHER -> h

\* new URL(url), for a url that parses
ParseUrl(url) ==
    [protocol |-> LowerScheme(url.scheme) \o ":",
     hostname |-> LowerHost(url.host),
     pathname |-> url.path,
     searchParams |-> url.query]

\* urlObj.searchParams.get(name): the first value of that name, or null
SearchParamsGet(params, name) ==
    IF \E i \in 1..Len(params) : params[i].name = name
    THEN params[CHOOSE i \in 1..Len(params) :
                   /\ params[i].name = name
                   /\ \A j \in 1..(i - 1) : params[j].name # name].value
    ELSE Null

\* a gate that tests the host before the protocol
assertAllowedHostHostFirst(url) ==
    IF ~url.wellFormed THEN "INVALID_URL"
    ELSE LET u == ParseUrl(url)
         IN IF u.hostname \notin ALLOWED_HOSTS THEN "HOST_NOT_ALLOWED"
            ELSE IF u.protocol \notin {"http:", "https:"} THEN "INVALID_PROTOCOL"
            ELSE "ok"

\* the code assertAllowedHost throws, "ok" when it returns
assertAllowedHost(url) ==
    IF ~url.wellFormed THEN "INVALID_URL"
    ELSE LET u == ParseUrl(url)
         IN IF u.protocol \notin {"http:", "https:"} THEN "INVALID_PROTOCOL"
            ELSE IF u.hostname \notin ALLOWED_HOSTS THEN "HOST_NOT_ALLOWED"
            ELSE "ok"

\* an extraction that tries the query parameters before the path
extractTxFromUrlQueryFirst(url) ==
    IF ~url.wellFormed THEN Null
    ELSE LET urlObj == ParseUrl(url)
             pathParts == SelectSeq(urlObj.pathname, Truthy)
             tx1 == SearchParamsGet(urlObj.searchParams, "tx")
             txParam == IF Truthy(tx1) THEN tx1
                        ELSE SearchParamsGet(urlObj.searchParams, "id")
         IN IF Truthy(txParam) THEN txParam
            ELSE IF Len(pathParts) >= 2 /\ pathParts[1] = <<"receipt">>
            THEN pathParts[2]
            ELSE IF pathParts # <<>> THEN pathParts[Len(pathParts)]
            ELSE Null

\* extractTxFromUrl(url): null when new URL(url) throws
extractTxFromUrl(url) ==
    IF ~url.wellFormed THEN Null
    ELSE LET urlObj == ParseUrl(url)
             pathParts == SelectSeq(urlObj.pathname, Truthy)
             tx1 == SearchParamsGet(urlObj.searchParams, "tx")
             txParam == IF Truthy(tx1) THEN tx1
                        ELSE SearchParamsGet(urlObj.searchParams, "id")
         IN IF Len(pathParts) >= 2 /\ pathParts[1] = <<"receipt">>
            THEN pathParts[2]
            ELSE IF Truthy(txParam) THEN txParam
            ELSE IF pathParts # <<>> /\ Truthy(pathParts[Len(pathParts)])
                 THEN pathParts[Len(pathParts)]
                 ELSE Null

(***************************************************************************)
(* The transaction code and the receipt URL built from it.                  *)
(***************************************************************************)
TX_LENGTH == 10

\* atoms that hold a character outside [A-Za-z0-9]; every other atom is made
\* of ASCII letters and digits only
NonAlnumAtoms ==
    {SP, NBSP, TAB, NEWLINE, COLON, FWCOLON, ".", "/", "-", "_", "<e-acute>", "{tx}",
     "500.00", "1,234.50", "12.345", "%20", "%2F", "%C3%A9", "%3A",
     "<am-credited-account>", "<null>"}

IsAlnumAtom(a) == a \notin NonAlnumAtoms

\* the number of characters of an atom
AtomLength(a) ==
    IF a \in {NBSP, TAB, NEWLINE, FWCOLON, "<e-acute>"} THEN 1
    ELSE Len(a)

RECURSIVE StringLength(_)
StringLength(s) ==
    IF s = <<>> THEN 0 ELSE AtomLength(Head(s)) + StringLength(Tail(s))

\* the pattern without its end anchor: /^[A-Za-z0-9]{10}/
TxPatternTestUnanchored(tx) ==
    \E n \in 1..Len(tx) :
        /\ \A i \in 1..n : IsAlnumAtom(tx[i])
        /\ StringLength(SubSeq(tx, 1, n)) = TX_LENGTH

\* /^[A-Za-z0-9]{10}$/.test(tx)
TxPatternTest(tx) ==
    /\ \A i \in 1..Len(tx) : IsAlnumAtom(tx[i])
    /\ StringLength(tx) = TX_LENGTH

EncodeAtom(a) ==
    CASE a = SP -> "%20"
      [] a = NBSP -> "%C2%A0"
      [] a = TAB -> "%09"
      [] a = NEWLINE -> "%0A"
      [] a = COLON -> "%3A"
      [] a = FWCOLON -> "%EF%BC%9A"
      [] a = "/" -> "%2F"
      [] a = "<e-acute>" -> "%C3%A9"
      [] OTHER -> a

encodeURIComponent(s) == [i \in 1..Len(s) |-> EncodeAtom(s[i])]

Placeholder == <<"{tx}">>

\* template.replace("{tx}", code): the first occurrence only, looked for in
\* the path and then in the query
ReplacePlaceholder(template, code) ==
    LET inPath == {i \in 1..Len(template.path) : template.path[i] = Placeholder}
        inQuery == {i \in 1..Len(template.query) :
                       template.query[i].value = Placeholder}
        firstOf(S) == CHOOSE i \in S : \A j \in S : i <= j
    IN IF inPath # {}
       THEN [template EXCEPT !.path[firstOf(inPath)] = code]
       ELSE IF inQuery # {}
            THEN [template EXCEPT !.query[firstOf(inQuery)].value = code]
            ELSE template

\* a build that replaces every occurrence of the placeholder
buildReceiptUrlFromTxReplaceAll(template, tx) ==
    [template EXCEPT
        !.path = [i \in 1..Len(template.path) |->
                     IF template.path[i] = Placeholder
                     THEN encodeURIComponent(tx) ELSE template.path[i]],
        !.query = [i \in 1..Len(template.query) |->
                      IF template.query[i].value = Placeholder
                      THEN Param(template.query[i].name, encodeURIComponent(tx))
                      ELSE template.query[i]]]

\* RECEIPT_URL_TEMPLATE.replace("{tx}", encodeURIComponent(tx))
buildReceiptUrlFromTx(template, tx) ==
    ReplacePlaceholder(template, encodeURIComponent(tx))

(***************************************************************************)
(* The fetched page.  html is [length, body]: the number of characters of   *)
(* the markup and the nodes of its body in document order, each a text node *)
(* or a table row.                                                          *)
(***************************************************************************)
TextNode(t) == [kind |-> "text", text |-> t, cells |-> <<>>]
RowNode(cs) == [kind |-> "row", text |-> <<>>, cells |-> cs]

\* the text of one node, the text inside links included
NodeText(node) ==
    IF node.kind = "text" THEN node.text
    ELSE ConcatAll([i \in 1..Len(node.cells) |->
                       node.cells[i].text \o node.cells[i].link])

\* $("body").text()
BodyText(html) == ConcatAll([i \in 1..Len(html.body) |-> NodeText(html.body[i])])

IsRowNode(node) == node.kind = "row"

\* $("table tr")
TableRows(html) ==
    LET rs == SelectSeq(html.body, IsRowNode)
    IN [i \in 1..Len(rs) |-> rs[i].cells]

\* the index of the first atom at or after i that is not a blank: \s*
RECURSIVE SkipWhitespace(_, _)
SkipWhitespace(b, i) ==
    IF i <= Len(b) /\ IsWhitespace(b[i]) THEN SkipWhitespace(b, i + 1) ELSE i

\* words that end with "no", "not", "invalid", "does" and words that start
\* with "data", "found", "invoice", "exist": the pattern has no \b
EndsWithNo == {"no", "casino"}
StartsWithData == {"data", "database"}
EndsWithNot == {"not", "cannot"}
StartsWithFound == {"found", "foundation"}
EndsWithInvalid == {"invalid"}
StartsWithInvoice == {"invoice", "invoices"}
EndsWithDoes == {"does"}
StartsWithExist == {"exist", "exists"}

\* first\s+second matched from atom i
TwoWordsAt(b, i, first, second) ==
    /\ ToLowerAtom(b[i]) \in first
    /\ i < Len(b)
    /\ IsWhitespace(b[i + 1])
    /\ LET j == SkipWhitespace(b, i + 1)
       IN j <= Len(b) /\ ToLowerAtom(b[j]) \in second

\* the pattern without its third alternative
NotFoundTestWithoutInvalidInvoice(b) ==
    \E i \in 1..Len(b) :
        \/ TwoWordsAt(b, i, EndsWithNo, StartsWithData)
        \/ TwoWordsAt(b, i, EndsWithNot, StartsWithFound)
        \/ /\ TwoWordsAt(b, i, EndsWithDoes, {"not"})
           /\ TwoWordsAt(b, SkipWhitespace(b, i + 1), {"not"}, StartsWithExist)

\* /no\s+data|not\s+found|invalid\s+invoice|does\s+not\s+exist/i.test(bodyText)
NotFoundTest(b) ==
    \E i \in 1..Len(b) :
        \/ TwoWordsAt(b, i, EndsWithNo, StartsWithData)
        \/ TwoWordsAt(b, i, EndsWithNot, StartsWithFound)
        \/ TwoWordsAt(b, i, EndsWithInvalid, StartsWithInvoice)
        \/ /\ TwoWordsAt(b, i, EndsWithDoes, {"not"})
           /\ TwoWordsAt(b, SkipWhitespace(b, i + 1), {"not"}, StartsWithExist)

\* .replace(/download the pdf/gi, "")
RECURSIVE RemoveDownloadThePdf(_)
RemoveDownloadThePdf(b) ==
    IF b = <<>> THEN <<>>
    ELSE IF /\ Len(b) >= 5
            /\ ToLowerCase(SubSeq(b, 1, 5)) = <<"download", SP, "the", SP, "pdf">>
         THEN RemoveDownloadThePdf(SubSeq(b, 6, Len(b)))
         ELSE <<Head(b)>> \o RemoveDownloadThePdf(Tail(b))

\* atoms whose first and last characters are word characters [A-Za-z0-9_]
IsWordAtom(a) == IsAlnumAtom(a) \/ a \in {"_", "500.00", "1,234.50", "12.345"}

\* \b before atom i and after atom j, both word atoms
BoundaryBefore(b, i) == i = 1 \/ ~IsWordAtom(b[i - 1])
BoundaryAfter(b, j) == j = Len(b) \/ ~IsWordAtom(b[j + 1])

\* the last atom of the run of letters and digits that starts at j
RECURSIVE RunEnd(_, _)
RunEnd(b, j) ==
    IF j < Len(b) /\ IsAlnumAtom(b[j + 1]) THEN RunEnd(b, j + 1) ELSE j

\* the least element of a non-empty set of indices: the leftmost match
Leftmost(S) == CHOOSE i \in S : \A j \in S : i <= j

\* extractByRegex(bodyText, /\bInvoice No\.\s*([A-Z0-9]{6,})\b/i)
InvoiceMatchAt(b, i) ==
    /\ i + 4 <= Len(b)
    /\ ToLowerAtom(b[i]) = "invoice"
    /\ BoundaryBefore(b, i)
    /\ b[i + 1] = SP
    /\ ToLowerAtom(b[i + 2]) = "no"
    /\ b[i + 3] = "."
    /\ LET j == SkipWhitespace(b, i + 4)
       IN /\ j <= Len(b)
          /\ IsAlnumAtom(b[j])
          /\ StringLength(SubSeq(b, j, RunEnd(b, j))) >= 6
          /\ BoundaryAfter(b, RunEnd(b, j))

extractInvoiceNo(b) ==
    LET at == {i \in 1..Len(b) : InvoiceMatchAt(b, i)}
    IN IF at = {} THEN Null
       ELSE LET j == SkipWhitespace(b, Leftmost(at) + 4)
            IN cleanText(SubSeq(b, j, RunEnd(b, j)))

\* atoms that match [0-9,]+(?:\.[0-9]{1,2})? as a whole
IsAmountNumber(a) == a \in {"500.00", "1,234.50", "500"}

\* extractByRegex(bodyText,
\*     /\bSettled Amount\s*([0-9,]+(?:\.[0-9]{1,2})?)\s*Birr\b/i)
AmountMatchAt(b, i) ==
    /\ i + 3 <= Len(b)
    /\ ToLowerAtom(b[i]) = "settled"
    /\ BoundaryBefore(b, i)
    /\ b[i + 1] = SP
    /\ ToLowerAtom(b[i + 2]) = "amount"
    /\ LET j == SkipWhitespace(b, i + 3)
       IN /\ j <= Len(b)
          /\ IsAmountNumber(b[j])
          /\ LET k == SkipWhitespace(b, j + 1)
             IN /\ k <= Len(b)
                /\ ToLowerAtom(b[k]) = "birr"
                /\ BoundaryAfter(b, k)

extractSettledAmount(b) ==
    LET at == {i \in 1..Len(b) : AmountMatchAt(b, i)}
    IN IF at = {} THEN Null
       ELSE cleanText(<<b[SkipWhitespace(b, Leftmost(at) + 3)]>>)

IsNotJunkEntry(e) == ~isJunkPair(e.k, e.v)

\* the entries of rawPairs that are not junk, in order
cleanRawPairs(rawPairs) == SelectSeq(rawPairs, IsNotJunkEntry)

\* for (const k of keys) if (raw[k]) return raw[k]; return null;
RECURSIVE pickExact(_, _)
pickExact(obj, keys) ==
    IF keys = <<>> THEN Null
    ELSE IF Head(keys) \in OwnKeys(obj) THEN OwnValue(obj, Head(keys))
    ELSE IF Head(keys) \in ObjectPrototypeKeys THEN <<"<inherited>">>
    ELSE pickExact(obj, Tail(keys))

CreditedAccountLabel == <<"Credited", SP, "party", SP, "account", SP, "no">>

\* the bilingual and the English alias of the credited party account number
CreditedAccountKeys ==
    << <<"<am-credited-account>", "/">> \o CreditedAccountLabel,
       CreditedAccountLabel >>

\* the fields of the canonical record that the acceptance gate reads, and
\* rawData; the names, the status and the payment date are resolved the same
\* way and no decision of the pipeline reads them
extractCanonical(html, tx) ==
    LET rawPairs == extractReceiptRawPairs(TableRows(html))
        rawData == cleanRawPairs(rawPairs)
        bodyText == RemoveDownloadThePdf(cleanText(BodyText(html)))
        invoice == extractInvoiceNo(bodyText)
        amount == extractSettledAmount(bodyText)
    IN [invoiceNo |-> IF Truthy(invoice) THEN invoice ELSE tx,
        settledAmount |-> IF Truthy(amount) THEN amount ELSE Null,
        creditedPartyAccountNo |-> pickExact(rawData, CreditedAccountKeys),
        rawData |-> rawData,
        sourceUrl |-> NoUrl]

(***************************************************************************)
(* What a call settles with: code "OK" and the record, or an error code     *)
(* and its details.                                                         *)
(***************************************************************************)
NoValue == <<>>
NoOutcome == [code |-> "<pending>", details |-> NoValue, value |-> NoValue]
Failure(code) == [code |-> code, details |-> NoValue, value |-> NoValue]
Success(canonical) == [code |-> "OK", details |-> NoValue, value |-> canonical]

\* a gate that leaves the credited party account number out
MissingCriticalFieldWithoutAccount(canonical) ==
    \/ ~Truthy(canonical.invoiceNo)
    \/ ~Truthy(canonical.settledAmount)

\* if (!canonical.invoiceNo || !canonical.settledAmount ||
\*     !canonical.creditedPartyAccountNo)
MissingCriticalField(canonical) ==
    \/ ~Truthy(canonical.invoiceNo)
    \/ ~Truthy(canonical.settledAmount)
    \/ ~Truthy(canonical.creditedPartyAccountNo)

\* err.details of PARSE_FAIL
PresenceReport(canonical) ==
    [hasInvoiceNo |-> Truthy(canonical.invoiceNo),
     hasSettledAmount |-> Truthy(canonical.settledAmount),
     hasCreditedPartyAccountNo |-> Truthy(canonical.creditedPartyAccountNo)]

\* the end of getReceiptCanonical: require the critical fields, set sourceUrl
acceptCanonical(canonical, finalUrl) ==
    IF MissingCriticalField(canonical)
    THEN [code |-> "PARSE_FAIL", details |-> PresenceReport(canonical),
          value |-> NoValue]
    ELSE Success([canonical EXCEPT !.sourceUrl = finalUrl])

MIN_HTML_LENGTH == 200

\* getReceiptCanonical from the html the fetch returned to its end
processHtml(html, finalUrl, tx) ==
    IF html.length = 0 \/ html.length < MIN_HTML_LENGTH THEN Failure("EMPTY_HTML")
    ELSE IF NotFoundTest(cleanText(BodyText(html))) THEN Failure("TX_NOT_FOUND")
    ELSE acceptCanonical(extractCanonical(html, tx), finalUrl)

(***************************************************************************)
(* The state of the parts a specification does not exercise.                *)
(***************************************************************************)
Procs == 1..NumProcs
\* a call launches at most one browser; the identity of a browser that is
\* gone names the next one launched
Browsers == 1..NumProcs

DefaultTemplate == Url("https", AllowedHost, <<<<"receipt">>, Placeholder>>, <<>>)

NoResult == [kind |-> "none", code |-> "", html |-> NoValue]

TextOff ==
    /\ text = <<>>
    /\ cleaned = Null
    /\ recleaned = Null
    /\ textPc = "off"

PairsOff ==
    /\ rows = <<>>
    /\ rowIdx = 0
    /\ raw = <<>>

BrowserInit ==
    /\ browserInstance = 0
    /\ browserState = [b \in Browsers |-> "none"]
    /\ closer = "idle"

\* every call in state at, with no argument yet
CallsInit(at) ==
    /\ pc = [p \in Procs |-> at[p]]
    /\ entry = [p \in Procs |-> "none"]
    /\ urlArg = [p \in Procs |-> NoUrl]
    /\ txCode = [p \in Procs |-> Null]
    /\ receiptUrl = [p \in Procs |-> NoUrl]
    /\ outcome = [p \in Procs |-> NoOutcome]
    /\ gateLog = [p \in Procs |-> <<>>]
    /\ fetchLog = [p \in Procs |-> <<>>]
    /\ browser = [p \in Procs |-> 0]
    /\ pageState = [p \in Procs |-> "none"]
    /\ tryResult = [p \in Procs |-> NoResult]
    /\ closeInvoked = [p \in Procs |-> FALSE]

PipelineOff ==
    /\ RECEIPT_URL_TEMPLATE = DefaultTemplate
    /\ served = {}
    /\ BrowserInit
    /\ CallsInit([p \in Procs |-> "off"])

(***************************************************************************)
(* fetchReceiptWithPuppeteer and the shared browser.  A call is suspended   *)
(* at each await; pc names the await it is suspended at.                    *)
(***************************************************************************)
At(p, where) == pc[p] = where
Goto(p, where) == pc' = [pc EXCEPT ![p] = where]

HtmlResult(html) == [kind |-> "html", code |-> "", html |-> html]
ErrorResult(code) == [kind |-> "error", code |-> code, html |-> NoValue]

\* what page operations throw
TimeoutError == [name |-> "TimeoutError", code |-> ""]
PlainError == [name |-> "Error", code |-> ""]
CodedError(code) == [name |-> "Error", code |-> code]

\* the catch block of fetchReceiptWithPuppeteer: the code of what it throws
catchCode(error) ==
    IF error.name = "TimeoutError" THEN "PAGE_TIMEOUT"
    ELSE IF error.code # "" THEN error.code
    ELSE "NAVIGATION_ERROR"

\* a finally block that releases the page on the successful path only
finallyClosesPageOnSuccess(page, result) == page # "none" /\ result.kind = "html"

\* finally { if (page) ... await page.close() }: whether close is invoked,
\* given the page variable and what the try block ended with
finallyClosesPage(page, result) == page # "none"

\* what getReceiptCanonical settles with once the fetch has settled
Settled(p, result) ==
    IF result.kind = "error" THEN Failure(result.code)
    ELSE processHtml(result.html, receiptUrl[p], txCode[p])

\* the try block ends with result: the finally block runs
LeaveTry(p, result) ==
    /\ tryResult' = [tryResult EXCEPT ![p] = result]
    /\ IF finallyClosesPage(pageState[p], result)
       THEN /\ closeInvoked' = [closeInvoked EXCEPT ![p] = TRUE]
            /\ Goto(p, "closing")
            /\ UNCHANGED <<outcome, browser>>
       ELSE /\ outcome' = [outcome EXCEPT ![p] = Settled(p, result)]
            /\ browser' = [browser EXCEPT ![p] = 0]
            /\ Goto(p, "done")
            /\ UNCHANGED closeInvoked

Connected(b) == b # 0 /\ browserState[b] = "connected"

\* the call of fetchReceiptWithPuppeteer(receiptUrl) up to the first await
\* of getBrowser: reuse the connected instance or call puppeteer.launch
FetchCall(p) ==
    /\ At(p, "fetch")
    /\ fetchLog' = [fetchLog EXCEPT ![p] = Append(@, receiptUrl[p])]
    /\ IF Connected(browserInstance)
       THEN /\ browser' = [browser EXCEPT ![p] = browserInstance]
            /\ Goto(p, "newPage")
       ELSE /\ Goto(p, "launching")
            /\ UNCHANGED browser
    /\ UNCHANGED <<textVars, pairVars, envVars, browserVars, entry, urlArg,
                   txCode, receiptUrl, outcome, gateLog, pageState, tryResult,
                   closeInvoked>>

\* puppeteer.launch resolves: the instance is assigned, the disconnected
\* handler registered, and the browser returned
LaunchResolves(p) ==
    /\ At(p, "launching")
    /\ \E b \in Browsers :
          /\ browserState[b] = "none"
          /\ \A c \in Browsers : c < b => browserState[c] # "none"
          /\ browserState' = [browserState EXCEPT ![b] = "connected"]
          /\ browserInstance' = b
          /\ browser' = [browser EXCEPT ![p] = b]
    /\ Goto(p, "newPage")
    /\ UNCHANGED <<textVars, pairVars, envVars, closer, entry, urlArg, txCode,
                   receiptUrl, outcome, gateLog, fetchLog, pageState,
                   tryResult, closeInvoked>>

\* puppeteer.launch rejects: BROWSER_LAUNCH_FAILED, thrown before the try
LaunchRejects(p) ==
    /\ At(p, "launching")
    /\ outcome' = [outcome EXCEPT ![p] = Failure("BROWSER_LAUNCH_FAILED")]
    /\ Goto(p, "done")
    /\ UNCHANGED <<textVars, pairVars, envVars, browserVars, entry, urlArg,
                   txCode, receiptUrl, gateLog, fetchLog, fetchVars>>

\* page = await browser.newPage()
NewPageResolves(p) ==
    /\ At(p, "newPage")
    /\ Connected(browser[p])
    /\ pageState' = [pageState EXCEPT ![p] = "open"]
    /\ Goto(p, "goto")
    /\ UNCHANGED <<textVars, pairVars, envVars, browserVars, entry, urlArg,
                   txCode, receiptUrl, outcome, gateLog, fetchLog, browser,
                   tryResult, closeInvoked>>

NewPageRejects(p) ==
    /\ At(p, "newPage")
    /\ LeaveTry(p, ErrorResult(catchCode(PlainError)))
    /\ UNCHANGED <<textVars, pairVars, envVars, browserVars, entry, urlArg,
                   txCode, receiptUrl, gateLog, fetchLog, pageState>>

\* the awaits from page.setViewport to page.goto, and the checks of the
\* response: no response, status >= 400
PageGoto(p) ==
    /\ At(p, "goto")
    /\ \/ /\ Connected(browser[p])
          /\ Goto(p, "content")
          /\ UNCHANGED <<tryResult, closeInvoked, outcome, browser>>
       \/ \E error \in {CodedError("PAGE_LOAD_FAILED"), CodedError("HTTP_ERROR"),
                        TimeoutError, PlainError} :
             LeaveTry(p, ErrorResult(catchCode(error)))
    /\ UNCHANGED <<textVars, pairVars, envVars, browserVars, entry, urlArg,
                   txCode, receiptUrl, gateLog, fetchLog, pageState>>

\* await page.waitForSelector("body"), html = await page.content(), and
\* return { html, status, url: page.url() }
PageContent(p) ==
    /\ At(p, "content")
    /\ \/ /\ Connected(browser[p])
          /\ \E html \in served : LeaveTry(p, HtmlResult(html))
       \/ \E error \in {TimeoutError, PlainError} :
             LeaveTry(p, ErrorResult(catchCode(error)))
    /\ UNCHANGED <<textVars, pairVars, envVars, browserVars, entry, urlArg,
                   txCode, receiptUrl, gateLog, fetchLog, pageState>>

\* await page.close() settles (a rejection is logged and dropped: the page
\* went with its browser); the fetch settles and getReceiptCanonical resumes
PageCloseSettles(p) ==
    /\ At(p, "closing")
    /\ pageState' = [pageState EXCEPT ![p] = IF @ = "open" THEN "closed" ELSE @]
    /\ outcome' = [outcome EXCEPT ![p] = Settled(p, tryResult[p])]
    /\ browser' = [browser EXCEPT ![p] = 0]
    /\ Goto(p, "done")
    /\ UNCHANGED <<textVars, pairVars, envVars, browserVars, entry, urlArg,
                   txCode, receiptUrl, gateLog, fetchLog, tryResult,
                   closeInvoked>>

\* the pages once browser b is gone: its open pages go with it
PagesWithout(b) ==
    [p \in Procs |-> IF browser[p] = b /\ pageState[p] = "open"
                     THEN "gone" ELSE pageState[p]]

\* the handles once browser b is gone: a handle to it is a dead handle
HandlesWithout(b) == [p \in Procs |-> IF browser[p] = b THEN 0 ELSE browser[p]]

\* the "disconnected" event of browser b: its handler sets the module-level
\* browserInstance to null
Disconnected(b) ==
    /\ browserState[b] = "connected"
    /\ browserState' = [browserState EXCEPT ![b] = "none"]
    /\ browserInstance' = 0
    /\ pageState' = PagesWithout(b)
    /\ browser' = HandlesWithout(b)
    /\ UNCHANGED <<textVars, pairVars, envVars, closer, callVars, tryResult,
                   closeInvoked>>

\* closeBrowser() up to await browserInstance.close(): the browser goes and
\* its "disconnected" handler runs, or close() is going to reject and the
\* browser stays
CloseBrowserCall ==
    /\ closer = "idle"
    /\ browserInstance # 0
    /\ closer' = "closing"
    /\ \/ /\ Connected(browserInstance)
          /\ browserState' = [browserState EXCEPT ![browserInstance] = "none"]
          /\ browserInstance' = 0
          /\ pageState' = PagesWithout(browserInstance)
          /\ browser' = HandlesWithout(browserInstance)
       \/ UNCHANGED <<browserInstance, browserState, pageState, browser>>
    /\ UNCHANGED <<textVars, pairVars, envVars, callVars, tryResult,
                   closeInvoked>>

\* browserInstance.close() settles (a rejection is logged and dropped), and
\* closeBrowser sets browserInstance = null
CloseBrowserSettles ==
    /\ closer = "closing"
    /\ browserInstance' = 0
    /\ closer' = "idle"
    /\ UNCHANGED <<textVars, pairVars, envVars, browserState, callVars,
                   fetchVars>>

FetchStep(p) ==
    \/ FetchCall(p)
    \/ LaunchResolves(p)
    \/ LaunchRejects(p)
    \/ NewPageResolves(p)
    \/ NewPageRejects(p)
    \/ PageGoto(p)
    \/ PageContent(p)
    \/ PageCloseSettles(p)

BrowserStep ==
    \/ \E b \in Browsers : Disconnected(b)
    \/ CloseBrowserCall
    \/ CloseBrowserSettles

(***************************************************************************)
(* getReceiptCanonical and getReceiptFromUrl up to the fetch.               *)
(***************************************************************************)
GateEntry(on, code) == [on |-> on, code |-> code]

Fail(p, code) ==
    /\ outcome' = [outcome EXCEPT ![p] = Failure(code)]
    /\ Goto(p, "done")

\* getReceiptCanonical(tx) is called
CallGetReceiptCanonical(p, tx) ==
    /\ At(p, "idle")
    /\ entry' = [entry EXCEPT ![p] = "tx"]
    /\ txCode' = [txCode EXCEPT ![p] = tx]
    /\ Goto(p, "validate")
    /\ UNCHANGED <<textVars, pairVars, envVars, browserVars, urlArg,
                   receiptUrl, outcome, gateLog, fetchLog, fetchVars>>

\* getReceiptFromUrl(url) is called
CallGetReceiptFromUrl(p, u) ==
    /\ At(p, "idle")
    /\ entry' = [entry EXCEPT ![p] = "url"]
    /\ urlArg' = [urlArg EXCEPT ![p] = u]
    /\ Goto(p, "urlGate")
    /\ UNCHANGED <<textVars, pairVars, envVars, browserVars, txCode,
                   receiptUrl, outcome, gateLog, fetchLog, fetchVars>>

\* getReceiptFromUrl: assertAllowedHost(url)
UrlGate(p) ==
    /\ At(p, "urlGate")
    /\ LET code == assertAllowedHost(urlArg[p])
       IN /\ gateLog' = [gateLog EXCEPT ![p] = Append(@, GateEntry("url", code))]
          /\ IF code = "ok"
             THEN Goto(p, "urlExtract") /\ UNCHANGED outcome
             ELSE Fail(p, code)
    /\ UNCHANGED <<textVars, pairVars, envVars, browserVars, entry, urlArg,
                   txCode, receiptUrl, fetchLog, fetchVars>>

\* getReceiptFromUrl: tx = extractTxFromUrl(url); if (!tx) throw
UrlExtract(p) ==
    /\ At(p, "urlExtract")
    /\ LET tx == extractTxFromUrl(urlArg[p])
       IN /\ txCode' = [txCode EXCEPT ![p] = tx]
          /\ IF Truthy(tx)
             THEN Goto(p, "urlValidate") /\ UNCHANGED outcome
             ELSE Fail(p, "TX_EXTRACT_FAILED")
    /\ UNCHANGED <<textVars, pairVars, envVars, browserVars, entry, urlArg,
                   receiptUrl, gateLog, fetchLog, fetchVars>>

\* getReceiptFromUrl: the format check, then return getReceiptCanonical(tx);
\* url is not used past this point
UrlValidate(p) ==
    /\ At(p, "urlValidate")
    /\ IF TxPatternTest(txCode[p])
       THEN /\ Goto(p, "validate")
            /\ urlArg' = [urlArg EXCEPT ![p] = NoUrl]
            /\ UNCHANGED outcome
       ELSE Fail(p, "TX_FORMAT") /\ UNCHANGED urlArg
    /\ UNCHANGED <<textVars, pairVars, envVars, browserVars, entry, txCode,
                   receiptUrl, gateLog, fetchLog, fetchVars>>

\* getReceiptCanonical: the format check
Validate(p) ==
    /\ At(p, "validate")
    /\ IF TxPatternTest(txCode[p])
       THEN Goto(p, "build") /\ UNCHANGED outcome
       ELSE Fail(p, "TX_FORMAT")
    /\ UNCHANGED <<textVars, pairVars, envVars, browserVars, entry, urlArg,
                   txCode, receiptUrl, gateLog, fetchLog, fetchVars>>

\* getReceiptCanonical: receiptUrl = buildReceiptUrlFromTx(tx)
Build(p) ==
    /\ At(p, "build")
    /\ receiptUrl' = [receiptUrl EXCEPT ![p] =
                         buildReceiptUrlFromTx(RECEIPT_URL_TEMPLATE, txCode[p])]
    /\ Goto(p, "gate")
    /\ UNCHANGED <<textVars, pairVars, envVars, browserVars, entry, urlArg,
                   txCode, outcome, gateLog, fetchLog, fetchVars>>

\* getReceiptCanonical without its call of assertAllowedHost
GateSkipped(p) ==
    /\ At(p, "gate")
    /\ Goto(p, "fetch")
    /\ UNCHANGED <<textVars, pairVars, envVars, browserVars, entry, urlArg,
                   txCode, receiptUrl, outcome, gateLog, fetchLog, fetchVars>>

\* getReceiptCanonical: assertAllowedHost(receiptUrl)
Gate(p) ==
    /\ At(p, "gate")
    /\ LET code == assertAllowedHost(receiptUrl[p])
       IN /\ gateLog' = [gateLog EXCEPT ![p] =
                            Append(@, GateEntry("receiptUrl", code))]
          /\ IF code = "ok"
             THEN Goto(p, "fetch") /\ UNCHANGED outcome
             ELSE Fail(p, code)
    /\ UNCHANGED <<textVars, pairVars, envVars, browserVars, entry, urlArg,
                   txCode, receiptUrl, fetchLog, fetchVars>>

(***************************************************************************)
(* Inputs.                                                                  *)
(***************************************************************************)
TxA == <<"T", "x", "9", "a", "b", "c", "1", "2", "3", "4">>
TxB == <<"Q", "r", "8", "d", "e", "f", "5", "6", "7", "0">>

\* every string of at most MaxTxLen characters that is all "a" but for at
\* most one character
TxInputs ==
    {[i \in 1..n |-> IF i = k THEN c ELSE "a"] :
        n \in 0..MaxTxLen, k \in 1..MaxTxLen,
        c \in {"a", "Z", "7", "-", SP, NEWLINE, "<e-acute>"}}

SegmentPool == {<<"receipt">>, TxA, <<"x">>, EmptyStr}
PathPool == UNION {[1..n -> SegmentPool] : n \in 0..MaxSegs}
QueryPool ==
    {<<>>,
     <<Param("tx", TxB)>>,
     <<Param("id", TxB)>>,
     <<Param("tx", EmptyStr), Param("id", TxB)>>,
     <<Param("id", <<"y">>), Param("tx", TxB), Param("tx", <<"z">>)>>}

UrlInputs ==
    {Url(s, h, <<<<"receipt">>, TxA>>, <<>>) :
        s \in {"https", "http", "HTTPS", "ftp", "javascript"},
        h \in {AllowedHost, "TRANSACTIONINFO.ETHIOTELECOM.ET",
               "evil.transactioninfo.ethiotelecom.et",
               "transactioninfo.ethiotelecom.et.evil.example", "evil.example"}}
    \cup {Url("https", AllowedHost, path, q) : path \in PathPool, q \in QueryPool}
    \cup {MalformedUrl}

\* the default template and the values RECEIPT_URL_TEMPLATE may be set to
Templates ==
    {DefaultTemplate,
     Url("http", AllowedHost, <<<<"lookup">>>>,
         <<Param("tx", Placeholder), Param("ref", Placeholder)>>),
     Url("https", "evil.example", <<<<"receipt">>, Placeholder>>, <<>>),
     Url("ftp", AllowedHost, <<<<"receipt">>, Placeholder>>, <<>>),
     MalformedUrl}

InvoiceTexts == {EmptyStr, <<"Invoice", SP, "No", ".", SP, "ABC12345XYZ">>}

AmountTexts ==
    {EmptyStr,
     <<"Settled", SP, "Amount", SP, "500.00", SP, "Birr">>,
     <<"SETTLED", NBSP, "Amount", "1,234.50", "Birr">>,
     <<"Settled", SP, "Amount", COLON, SP, "500.00", SP, "Birr">>,
     <<"Settled", SP, "Amount", SP, "12.345", SP, "Birr">>}

AccountRows ==
    {<<>>,
     <<Cell(CreditedAccountLabel), Cell(<<"0911">>)>>,
     <<Cell(CreditedAccountKeys[1] \o <<COLON>>), Cell(<<NBSP, "0911">>)>>,
     <<Cell(CreditedAccountLabel), [text |-> EmptyStr, link |-> <<"0911">>]>>,
     <<Cell(<<"Credited", SP, "Party", SP, "Account", SP, "No">>), Cell(<<"0911">>)>>}

NotFoundTexts ==
    {<<"No", SP, "data">>,
     <<"Transaction", SP, "not", NBSP, NEWLINE, "found">>,
     <<"Invalid", SP, "Invoice", SP, "number">>,
     <<"does", SP, "not", SP, "exist">>,
     <<"casino", SP, "database">>}

Page(n, invoice, amount, account, notice) ==
    [length |-> n,
     body |-> <<TextNode(invoice), TextNode(<<SP>>), TextNode(amount),
                TextNode(<<NEWLINE>>), RowNode(account), TextNode(<<SP>>),
                TextNode(notice)>>]

FullInvoice == <<"Invoice", SP, "No", ".", SP, "ABC12345XYZ">>
FullAmount == <<"Settled", SP, "Amount", SP, "500.00", SP, "Birr">>
FullAccount == <<Cell(CreditedAccountLabel), Cell(<<"0911">>)>>

Pages ==
    {Page(MIN_HTML_LENGTH, i, a, c, EmptyStr) :
        i \in InvoiceTexts, a \in AmountTexts, c \in AccountRows}
    \cup {Page(MIN_HTML_LENGTH, FullInvoice, FullAmount, FullAccount, n) :
             n \in NotFoundTexts}
    \cup {Page(MIN_HTML_LENGTH, EmptyStr, EmptyStr, <<>>, n) : n \in NotFoundTexts}
    \cup {Page(MIN_HTML_LENGTH - 1, FullInvoice, FullAmount, FullAccount, EmptyStr),
          [length |-> 0, body |-> <<>>]}

(***************************************************************************)
(* Specification Spec: one call of getReceiptCanonical or getReceiptFromUrl *)
(* on any input, from its first statement to what it settles with, under    *)
(* any template, any behaviour of the browser and any served page.          *)
(***************************************************************************)
Init ==
    /\ RECEIPT_URL_TEMPLATE \in Templates
    /\ served = Pages
    /\ BrowserInit
    /\ CallsInit([p \in Procs |-> IF p = 1 THEN "idle" ELSE "off"])
    /\ TextOff
    /\ PairsOff

PipelineStep(p) ==
    \/ \E tx \in TxInputs : CallGetReceiptCanonical(p, tx)
    \/ \E u \in UrlInputs : CallGetReceiptFromUrl(p, u)
    \/ UrlGate(p)
    \/ UrlExtract(p)
    \/ UrlValidate(p)
    \/ Validate(p)
    \/ Build(p)
    \/ Gate(p)

Next ==
    \/ \E p \in Procs : PipelineStep(p)
    \/ \E p \in Procs : FetchStep(p)
    \/ BrowserStep

Spec == Init /\ [][Next]_vars

(***************************************************************************)
(* Properties of specification Spec.                                        *)
(***************************************************************************)
Done(p) == pc[p] = "done"
FetchedHtml(p) == tryResult[p].kind = "html"

AllCriticalPresent(c) ==
    /\ Truthy(c.invoiceNo)
    /\ Truthy(c.settledAmount)
    /\ Truthy(c.creditedPartyAccountNo)

\* C1: getReceiptCanonical returns a record only if invoiceNo, settledAmount
\* and creditedPartyAccountNo are all non-empty; when a page that reaches
\* field resolution lacks one, it raises PARSE_FAIL with no record, and the
\* details report the actual presence of each of the three fields.
C1_AcceptanceGate ==
    \A p \in Procs :
        Done(p) =>
            /\ outcome[p].code = "OK" => AllCriticalPresent(outcome[p].value)
            /\ outcome[p].code = "PARSE_FAIL" =>
                  /\ FetchedHtml(p)
                  /\ outcome[p].value = NoValue
                  /\ LET c == extractCanonical(tryResult[p].html, txCode[p])
                     IN /\ ~AllCriticalPresent(c)
                        /\ outcome[p].details.hasInvoiceNo = Truthy(c.invoiceNo)
                        /\ outcome[p].details.hasSettledAmount =
                              Truthy(c.settledAmount)
                        /\ outcome[p].details.hasCreditedPartyAccountNo =
                              Truthy(c.creditedPartyAccountNo)
            /\ (/\ FetchedHtml(p)
                /\ outcome[p].code \notin {"EMPTY_HTML", "TX_NOT_FOUND"}
                /\ ~AllCriticalPresent(
                       extractCanonical(tryResult[p].html, txCode[p])))
                  => outcome[p].code = "PARSE_FAIL"

\* a page with the invoice number and the amount but no credited party
\* account number was fetched, and the call failed with PARSE_FAIL
C1_Witness ==
    \E p \in Procs :
        /\ Done(p)
        /\ outcome[p].code = "PARSE_FAIL"
        /\ outcome[p].details.hasInvoiceNo
        /\ outcome[p].details.hasSettledAmount
        /\ ~outcome[p].details.hasCreditedPartyAccountNo
        /\ extractInvoiceNo(RemoveDownloadThePdf(
               cleanText(BodyText(tryResult[p].html)))) = <<"ABC12345XYZ">>

GatePassed(p, on) == GateEntry(on, "ok") \in {gateLog[p][i] : i \in 1..Len(gateLog[p])}
GateRejected(p) == \E i \in 1..Len(gateLog[p]) : gateLog[p][i].code # "ok"

OnAllowedHost(url) ==
    /\ url.wellFormed
    /\ LowerScheme(url.scheme) \in {"http", "https"}
    /\ LowerHost(url.host) \in ALLOWED_HOSTS

\* C2: a fetch is attempted only after assertAllowedHost has succeeded on
\* the URL fetched, and, in getReceiptFromUrl, after it has succeeded on the
\* caller's URL, which it checks before anything else; once the gate has
\* rejected a URL the call attempts no fetch.
C2_GateBeforeFetch ==
    \A p \in Procs :
        /\ \A i \in 1..Len(fetchLog[p]) :
              /\ fetchLog[p][i] = receiptUrl[p]
              /\ OnAllowedHost(fetchLog[p][i])
              /\ GatePassed(p, "receiptUrl")
              /\ entry[p] = "url" => gateLog[p][1] = GateEntry("url", "ok")
        /\ (entry[p] = "url" /\ pc[p] # "urlGate") =>
              /\ gateLog[p] # <<>>
              /\ gateLog[p][1].on = "url"
              /\ (gateLog[p][1].code = "ok" /\ urlArg[p] # NoUrl) =>
                    OnAllowedHost(urlArg[p])
        /\ GateRejected(p) =>
              /\ fetchLog[p] = <<>>
              /\ Done(p)
              /\ outcome[p].code \in {"INVALID_URL", "INVALID_PROTOCOL",
                                      "HOST_NOT_ALLOWED"}

\* a call of getReceiptFromUrl whose two gates passed has fetched
C2_Witness ==
    \E p \in Procs :
        /\ entry[p] = "url"
        /\ gateLog[p] = <<GateEntry("url", "ok"), GateEntry("receiptUrl", "ok")>>
        /\ fetchLog[p] # <<>>
        /\ Done(p)

NotFoundPhrases ==
    {<<"no", SP, "data">>, <<"not", SP, "found">>, <<"invalid", SP, "invoice">>,
     <<"does", SP, "not", SP, "exist">>}

ContainsPhrase(b, phrase) ==
    \E i \in 1..(Len(b) - Len(phrase) + 1) :
        ToLowerCase(SubSeq(b, i, i + Len(phrase) - 1)) = phrase

\* the fetch returned at least MIN_HTML_LENGTH characters of html whose
\* cleaned body holds one of the not-found phrases
NotFoundPage(p) ==
    /\ FetchedHtml(p)
    /\ tryResult[p].html.length >= MIN_HTML_LENGTH
    /\ \E phrase \in NotFoundPhrases :
          ContainsPhrase(cleanText(BodyText(tryResult[p].html)), phrase)

\* C3: when the cleaned body of a fetched page of at least 200 characters
\* holds "no data", "not found", "invalid invoice" or "does not exist" in
\* any case, getReceiptCanonical fails with TX_NOT_FOUND: it returns no
\* record and does not report PARSE_FAIL, whatever fields the page holds.
C3_NotFoundShortCircuit ==
    \A p \in Procs :
        (Done(p) /\ NotFoundPage(p)) =>
            /\ outcome[p].code = "TX_NOT_FOUND"
            /\ outcome[p].value = NoValue
            /\ outcome[p].details = NoValue

\* a page that says "Invalid Invoice number" and from which the three
\* critical fields resolve was fetched, and the call has settled
C3_Witness ==
    \E p \in Procs :
        /\ Done(p)
        /\ NotFoundPage(p)
        /\ ContainsPhrase(cleanText(BodyText(tryResult[p].html)),
                          <<"invalid", SP, "invoice">>)
        /\ AllCriticalPresent(extractCanonical(tryResult[p].html, txCode[p]))

\* tx has length 10 and every character of it is an ASCII letter or digit
TenAlnum(tx) ==
    /\ StringLength(tx) = TX_LENGTH
    /\ \A i \in 1..Len(tx) : IsAlnumAtom(tx[i])

\* the call is past the format check of getReceiptCanonical
PastValidate(p) ==
    \/ pc[p] \in {"build", "gate", "fetch", "launching", "newPage", "goto",
                  "content", "closing"}
    \/ receiptUrl[p] # NoUrl
    \/ fetchLog[p] # <<>>

\* C4: the identifier check passes exactly when tx has length 10 and every
\* character is an ASCII letter or digit; any other tx fails with TX_FORMAT,
\* and it does so before a URL is built or a fetch attempted.
C4_TxFormat ==
    \A p \in Procs :
        /\ PastValidate(p) => TenAlnum(txCode[p])
        /\ outcome[p].code = "TX_FORMAT" =>
              /\ ~TenAlnum(txCode[p])
              /\ receiptUrl[p] = NoUrl
              /\ fetchLog[p] = <<>>
        /\ (Done(p) /\ ~TenAlnum(txCode[p]) /\ (entry[p] = "tx" \/ Truthy(txCode[p])))
              => outcome[p].code = "TX_FORMAT"

\* getReceiptCanonical was called with eleven letters and digits and failed
\* with TX_FORMAT
C4_Witness ==
    \E p \in Procs :
        /\ entry[p] = "tx"
        /\ outcome[p].code = "TX_FORMAT"
        /\ StringLength(txCode[p]) = TX_LENGTH + 1
        /\ \A i \in 1..Len(txCode[p]) : IsAlnumAtom(txCode[p][i])

HttpOrHttps(url) == LowerScheme(url.scheme) \in {"http", "https"}

\* code is what the gate is to answer on url
GateCodeFits(url, code) ==
    /\ code = "ok" <=> OnAllowedHost(url)
    /\ ~url.wellFormed => code = "INVALID_URL"
    /\ (url.wellFormed /\ ~HttpOrHttps(url)) => code = "INVALID_PROTOCOL"
    /\ (url.wellFormed /\ HttpOrHttps(url) /\ LowerHost(url.host) # AllowedHost)
          => code = "HOST_NOT_ALLOWED"

\* C5: assertAllowedHost accepts only http and https URLs whose hostname is
\* the allow-listed host; text that does not parse yields INVALID_URL, any
\* other scheme INVALID_PROTOCOL, and any other host, a subdomain of the
\* allowed host included, HOST_NOT_ALLOWED, in that order.
C5_GateOutcome ==
    \A p \in Procs :
        \A i \in 1..Len(gateLog[p]) :
            /\ (gateLog[p][i].on = "url" /\ urlArg[p] # NoUrl) =>
                  GateCodeFits(urlArg[p], gateLog[p][i].code)
            /\ gateLog[p][i].on = "receiptUrl" =>
                  GateCodeFits(receiptUrl[p], gateLog[p][i].code)
            /\ (gateLog[p][i].code # "ok" /\ Done(p)) =>
                  outcome[p].code = gateLog[p][i].code

\* a URL with a scheme and a host that are both refused was refused with
\* INVALID_PROTOCOL
C5_Witness ==
    \E p \in Procs :
        /\ Done(p)
        /\ urlArg[p].wellFormed
        /\ urlArg[p].scheme = "ftp"
        /\ urlArg[p].host = "evil.example"
        /\ outcome[p].code = "INVALID_PROTOCOL"

\* getReceiptFromUrl has called extractTxFromUrl on the url it still holds
Extracted(p) ==
    /\ entry[p] = "url"
    /\ urlArg[p] # NoUrl
    /\ pc[p] \notin {"urlGate", "urlExtract"}
    /\ gateLog[p][1].code = "ok"

Segments(url) == SelectSeq(url.path, Truthy)

\* the value of the query parameter tx, else of id
TxOrId(url) ==
    IF Truthy(SearchParamsGet(url.query, "tx"))
    THEN SearchParamsGet(url.query, "tx")
    ELSE SearchParamsGet(url.query, "id")

\* strategies (b) and (c), and the two statements about null
QueryThenLastSegment(p, pathApplies) ==
    LET segs == Segments(urlArg[p])
    IN /\ (~pathApplies /\ Truthy(TxOrId(urlArg[p]))) =>
             txCode[p] = TxOrId(urlArg[p])
       /\ (~pathApplies /\ ~Truthy(TxOrId(urlArg[p])) /\ segs # <<>>) =>
             txCode[p] = segs[Len(segs)]
       /\ txCode[p] = Null => segs = <<>>
       /\ outcome[p].code = "TX_EXTRACT_FAILED" <=> txCode[p] = Null

\* the positions of the segments "receipt" that another segment follows
ReceiptPositions(segs) == {i \in 1..(Len(segs) - 1) : segs[i] = <<"receipt">>}

\* C10 as stated: extractTxFromUrl returns (a) the segment following a
\* "receipt" path segment, wherever in the path it is, else (b) the query
\* parameter tx, else id, else (c) the final path segment; null only for an
\* empty path, and TX_EXTRACT_FAILED exactly when it returns null.
C10_AnyReceiptSegment ==
    \A p \in Procs :
        /\ outcome[p].code = "TX_EXTRACT_FAILED" => Extracted(p)
        /\ Extracted(p) =>
              LET segs == Segments(urlArg[p])
                  at == ReceiptPositions(segs)
              IN /\ at # {} =>
                       txCode[p] = segs[1 + CHOOSE i \in at : \A j \in at : i <= j]
                 /\ QueryThenLastSegment(p, at # {})

\* C10: extractTxFromUrl returns (a) the second path segment when the first
\* is "receipt", else (b) the query parameter tx, else id, else (c) the
\* final path segment; null only for an empty path, and getReceiptFromUrl
\* raises TX_EXTRACT_FAILED exactly when it returns null.
C10_LeadingReceiptSegment ==
    \A p \in Procs :
        /\ outcome[p].code = "TX_EXTRACT_FAILED" => Extracted(p)
        /\ Extracted(p) =>
              LET segs == Segments(urlArg[p])
                  leading == Len(segs) >= 2 /\ segs[1] = <<"receipt">>
              IN /\ leading => txCode[p] = segs[2]
                 /\ QueryThenLastSegment(p, leading)

\* the identifier of /receipt/{id}?tx=... was taken from the path
C10_Witness ==
    \E p \in Procs :
        /\ Extracted(p)
        /\ urlArg[p].path = <<<<"receipt">>, TxA>>
        /\ SearchParamsGet(urlArg[p].query, "tx") = TxB
        /\ txCode[p] = TxA

\* the path segments of url, then the values of its query parameters
Slots(url) == url.path \o [i \in 1..Len(url.query) |-> url.query[i].value]

\* fetched is template with its first {tx} replaced by tx, and is template
\* when it has none
FromTemplate(fetched, template, tx) ==
    LET holes == {k \in 1..Len(Slots(template)) : Slots(template)[k] = Placeholder}
    IN /\ fetched.wellFormed
       /\ fetched.scheme = template.scheme
       /\ fetched.host = template.host
       /\ Len(fetched.path) = Len(template.path)
       /\ Len(fetched.query) = Len(template.query)
       /\ \A i \in 1..Len(template.query) :
             fetched.query[i].name = template.query[i].name
       /\ \A k \in 1..Len(Slots(template)) :
             Slots(fetched)[k] = IF k \in holes /\ \A h \in holes : k <= h
                                 THEN tx ELSE Slots(template)[k]

\* C11: the URL handed to the fetcher is the configured template with {tx}
\* replaced by an identifier that passed the 10-character alphanumeric
\* check, so its scheme, host and every path segment and query parameter
\* other than that identifier come from the configuration, never from the
\* caller's URL; each call fetches at most once.
C11_FetchedFromTemplate ==
    \A p \in Procs :
        /\ Len(fetchLog[p]) <= 1
        /\ \A i \in 1..Len(fetchLog[p]) :
              /\ TenAlnum(txCode[p])
              /\ FromTemplate(fetchLog[p][i], RECEIPT_URL_TEMPLATE, txCode[p])

\* a call of getReceiptFromUrl whose identifier came from the query of the
\* caller's URL has settled after fetching the template's URL for it
C11_Witness ==
    \E p \in Procs :
        /\ Done(p)
        /\ entry[p] = "url"
        /\ txCode[p] = TxB
        /\ RECEIPT_URL_TEMPLATE = DefaultTemplate
        /\ fetchLog[p] = <<Url("https", AllowedHost, <<<<"receipt">>, TxB>>, <<>>)>>
        /\ tryResult[p].kind = "html"

(***************************************************************************)
(* Specification SpecFetch: NumProcs calls of getReceiptCanonical that have *)
(* passed the gate and fetch concurrently through the shared browser.       *)
(***************************************************************************)
InitFetch ==
    /\ RECEIPT_URL_TEMPLATE = DefaultTemplate
    /\ served = {Page(MIN_HTML_LENGTH, FullInvoice, FullAmount, FullAccount, EmptyStr)}
    /\ BrowserInit
    /\ pc = [p \in Procs |-> "fetch"]
    /\ entry = [p \in Procs |-> "tx"]
    /\ urlArg = [p \in Procs |-> NoUrl]
    /\ txCode = [p \in Procs |-> TxA]
    /\ receiptUrl = [p \in Procs |-> buildReceiptUrlFromTx(DefaultTemplate, TxA)]
    /\ outcome = [p \in Procs |-> NoOutcome]
    /\ gateLog = [p \in Procs |-> <<GateEntry("receiptUrl", "ok")>>]
    /\ fetchLog = [p \in Procs |-> <<>>]
    /\ browser = [p \in Procs |-> 0]
    /\ pageState = [p \in Procs |-> "none"]
    /\ tryResult = [p \in Procs |-> NoResult]
    /\ closeInvoked = [p \in Procs |-> FALSE]
    /\ TextOff
    /\ PairsOff

NextFetch ==
    \/ \E p \in Procs : FetchStep(p)
    \/ BrowserStep

SpecFetch == InitFetch /\ [][NextFetch]_vars

LiveBrowsers == {b \in Browsers : browserState[b] = "connected"}

\* C7: the fetch collaborator exposes a single shared browser session: at no
\* time, under any interleaving of concurrent fetches, disconnections and
\* closeBrowser calls, is more than one launched browser alive.
C7_SingleSession == Cardinality(LiveBrowsers) <= 1

\* C8: once a fetch call has completed, on the successful path and on every
\* failing path, the page it acquired is no longer open and page.close was
\* invoked on it.
C8_PageReleased ==
    \A p \in Procs :
        pc[p] = "done" =>
            /\ pageState[p] # "open"
            /\ pageState[p] # "none" => closeInvoked[p]

\* every call has completed, one with a record and one with PAGE_TIMEOUT,
\* and the page of each was closed
C8_Witness ==
    /\ \A p \in Procs : pc[p] = "done"
    /\ \E p, q \in Procs :
          /\ outcome[p].code = "OK" /\ pageState[p] = "closed"
          /\ outcome[q].code = "PAGE_TIMEOUT" /\ pageState[q] = "closed"

(***************************************************************************)
(* Specification SpecText: cleanText applied to every text of at most       *)
(* MaxLen atoms (letters, blanks, colons), then to its own result.          *)
(***************************************************************************)
Texts == UNION {[1..n -> {"a", SP, NBSP, COLON, FWCOLON}] : n \in 0..MaxLen}

InitText ==
    /\ text \in Texts
    /\ cleaned = Null
    /\ recleaned = Null
    /\ textPc = "start"
    /\ PairsOff
    /\ PipelineOff

CleanOnce ==
    /\ textPc = "start"
    /\ cleaned' = cleanText(text)
    /\ textPc' = "once"
    /\ UNCHANGED <<text, recleaned, pairVars, pipeVars>>

CleanTwice ==
    /\ textPc = "once"
    /\ recleaned' = cleanText(cleaned)
    /\ textPc' = "twice"
    /\ UNCHANGED <<text, cleaned, pairVars, pipeVars>>

NextText == CleanOnce \/ CleanTwice

SpecText == InitText /\ [][NextText]_vars

(***************************************************************************)
(* Specification SpecPairs: extractReceiptRawPairs scanning every document  *)
(* of at most MaxRows rows drawn from RowPool, one row per step.            *)
(***************************************************************************)
PayerName == <<"Payer", SP, "Name">>
AbebeKebede == <<"Abebe", SP, "Kebede">>
DuplicateValue == <<"Duplicate", SP, "Value">>
DownloadPdf == <<"Download", SP, "PDF">>

LabelPool == {PayerName, PayerName \o <<COLON, SP>>, <<"constructor">>}
ValuePool == {AbebeKebede, DuplicateValue, <<NBSP>>, DownloadPdf}

RowPool ==
    {<<Cell(l), Cell(v)>> : l \in LabelPool, v \in ValuePool}
    \cup {<<Cell(PayerName)>>,
          <<Cell(PayerName), Cell(AbebeKebede), Cell(<<"Status">>)>>,
          <<Cell(<<"Status">>), Cell(<<"ok">>), Cell(PayerName), Cell(DuplicateValue)>>,
          <<Cell(EmptyStr), Cell(AbebeKebede)>>,
          <<[text |-> PayerName, link |-> DownloadPdf], Cell(AbebeKebede)>>}

InitPairs ==
    /\ rows \in UNION {[1..n -> RowPool] : n \in 0..MaxRows}
    /\ rowIdx = 0
    /\ raw = <<>>
    /\ TextOff
    /\ PipelineOff

\* one call of the callback of $("table tr").each
ScanRow ==
    /\ rowIdx < Len(rows)
    /\ rowIdx' = rowIdx + 1
    /\ raw' = ScanRowInto(raw, rows[rowIdx + 1])
    /\ UNCHANGED <<rows, textVars, pipeVars>>

NextPairs == ScanRow

SpecPairs == InitPairs /\ [][NextPairs]_vars

\* every pair of the document in document order, rows of fewer than two
\* cells left out
DocumentPairs(rs) ==
    ConcatAll([i \in 1..Len(rs) |->
                  IF Len(rs[i]) < 2 THEN <<>> ELSE PairsOfRow(rs[i])])

\* C9: once the scan is over the keys of the map are unique and, for each
\* label of a pair whose label and value are both non-empty after cleaning,
\* the map holds the value of the first such pair in document order.
C9_FirstWins ==
    rowIdx = Len(rows) =>
        LET ps == DocumentPairs(rows)
            full == {i \in 1..Len(ps) : ps[i].k # EmptyStr /\ ps[i].v # EmptyStr}
        IN /\ \A i, j \in 1..Len(raw) : raw[i].k = raw[j].k => i = j
           /\ \A i \in full :
                 LET first == CHOOSE j \in full :
                                 /\ ps[j].k = ps[i].k
                                 /\ \A m \in full : ps[m].k = ps[i].k => j <= m
                 IN /\ ps[i].k \in OwnKeys(raw)
                    /\ OwnValue(raw, ps[i].k) = ps[first].v

\* C6: cleanText is idempotent: cleaning the result of cleanText changes
\* nothing, cleanText(cleanText(s)) = cleanText(s) for every text s.
C6_CleanTextIdempotent == textPc = "twice" => recleaned = cleaned

====
